---- MODULE Spec2Model ----
(***************************************************************************)
(* week1/scraper.py: fetch one web page and extract its text and its       *)
(* links.  Two module-level functions (fetch_website_contents,             *)
(* fetch_website_links) and the class WebsiteFetcher, which fetches once    *)
(* in its constructor and extracts from the cached parse tree.             *)
(*                                                                         *)
(* Python strings are TLA+ strings (Len, \o and SubSeq act on them), the   *)
(* parse tree is a record tree, a Python value returned or raised is a     *)
(* Ret record.                                                             *)
(***************************************************************************)
EXTENDS Integers, Sequences, FiniteSets, TLC

\* ------------------------------------------------------------------ bounds

\* Longest body (top-level nodes under <body>) of a served page.
MaxNodes == 2
\* get_contents is called with max_length -MaxCut, 0, MaxCut and its default.
MaxCut == 3

\* --------------------------------------------------------- Python strings

Min(a, b) == IF a < b THEN a ELSE b
Max(a, b) == IF a > b THEN a ELSE b

\* s[i], 1-based; "" outside the string.
CharAt(s, i) == IF i >= 1 /\ i <= Len(s) THEN SubSeq(s, i, i) ELSE ""

\* str.find(c, from): the least index >= from at which character c occurs
\* in s, 0 when none.
RECURSIVE Find(_, _, _)
Find(s, c, from) ==
    IF from > Len(s) THEN 0
    ELSE IF CharAt(s, from) = c THEN from
    ELSE Find(s, c, from + 1)

\* A slice that keeps one character too many, as s[:n + 1] would.
SliceMutOffByOne(s, n) ==
    IF n >= 0 THEN SubSeq(s, 1, Min(n + 1, Len(s)))
              ELSE SubSeq(s, 1, Max(Len(s) + n, 0))

\* Python's s[:n]: the first n characters, and for n < 0 all but the last -n.
Slice(s, n) ==
    IF n >= 0 THEN SubSeq(s, 1, Min(n, Len(s)))
              ELSE SubSeq(s, 1, Max(Len(s) + n, 0))

Whitespace == {" ", "\n", "\t"}

\* str.strip(): leading and trailing whitespace removed.
RECURSIVE FirstInk(_, _)
FirstInk(s, i) ==
    IF i > Len(s) \/ CharAt(s, i) \notin Whitespace THEN i ELSE FirstInk(s, i + 1)
RECURSIVE LastInk(_, _)
LastInk(s, i) ==
    IF i < 1 \/ CharAt(s, i) \notin Whitespace THEN i ELSE LastInk(s, i - 1)
Strip(s) == SubSeq(s, FirstInk(s, 1), LastInk(s, Len(s)))

\* sep.join(parts)
RECURSIVE Join(_, _)
Join(sep, parts) ==
    IF parts = <<>> THEN ""
    ELSE IF Len(parts) = 1 THEN parts[1]
    ELSE parts[1] \o sep \o Join(sep, Tail(parts))

\* c repeated n times.
RECURSIVE Repeat(_, _)
Repeat(c, n) ==
    IF n = 0 THEN ""
    ELSE IF n % 2 = 1 THEN c \o Repeat(c, n - 1)
    ELSE LET h == Repeat(c, n \div 2) IN h \o h

\* ------------------------------------------------------ returned values

\* What a call gives its caller: a str, a list of str, a WebsiteFetcher
\* handle, or an exception that leaves the call.
RetStr(s)   == [type |-> "str",    str |-> s,  list |-> <<>>, exc |-> "none"]
RetList(l)  == [type |-> "list",   str |-> "", list |-> l,    exc |-> "none"]
RetHandle   == [type |-> "handle", str |-> "", list |-> <<>>, exc |-> "none"]
RetRaise(e) == [type |-> "raise",  str |-> "", list |-> <<>>, exc |-> e]

\* The outcome of a try body: a returned value or a raised exception (with the
\* status code of its response, for an HTTPError).
Returned(v)       == [raised |-> FALSE, exc |-> "none", status |-> 0, val |-> v]
Raised(e, status) == [raised |-> TRUE, exc |-> e, status |-> status, val |-> RetRaise(e)]

\* str(n) for an int n >= 0, as an f-string formats a status code.
Digit(d) == SubSeq("0123456789", d + 1, d + 1)
RECURSIVE IntToStr(_)
IntToStr(n) == IF n < 10 THEN Digit(n) ELSE IntToStr(n \div 10) \o Digit(n % 10)

\* ----------------------------------------------------------- exceptions

\* The classes an except clause of the module can meet, each with its proper
\* ancestors in the method resolution order: requests.exceptions (ConnectTimeout
\* derives from both ConnectionError and Timeout), bs4's ParserRejectedMarkup
\* and the builtins.
Ancestors(cls) ==
    CASE cls = "ConnectionError"  -> {"RequestException", "OSError", "Exception"}
      [] cls = "ConnectTimeout"   -> {"ConnectionError", "Timeout", "RequestException",
                                      "OSError", "Exception"}
      [] cls = "ReadTimeout"      -> {"Timeout", "RequestException", "OSError", "Exception"}
      [] cls = "HTTPError"        -> {"RequestException", "OSError", "Exception"}
      [] cls = "TooManyRedirects" -> {"RequestException", "OSError", "Exception"}
      [] cls = "UnicodeError"     -> {"ValueError", "Exception"}
      [] cls = "ValueError"       -> {"Exception"}
      [] cls = "TypeError"        -> {"Exception"}
      [] cls = "ParserRejectedMarkup" -> {"Exception"}
      [] OTHER -> {}

\* isinstance(e, base), which is what an except clause tests.
IsInstance(cls, base) == cls = base \/ base \in Ancestors(cls)

\* ---------------------------------------------------------- parse tree

\* A node of the tree: an element (tag, its href attribute as a sequence of at
\* most one string, empty when the attribute is missing, and its children) or
\* a text node (tag "#text").
Text(t) == [tag |-> "#text", href |-> <<>>, text |-> t, kids |-> <<>>]
Elem(tag, href, kids) == [tag |-> tag, href |-> href, text |-> "", kids |-> kids]

\* soup.title and soup.body: the first such element of the document, or None.
NoElem == [present |-> FALSE, kids |-> <<>>]
Found(kids) == [present |-> TRUE, kids |-> kids]

\* The value of self.soup: None, or a parsed document.
NoSoup == [present |-> FALSE, title |-> NoElem, body |-> NoElem]
Soup(title, body) == [present |-> TRUE, title |-> title, body |-> body]

\* The tags get_contents and fetch_website_contents remove from the body.
Irrelevant == {"script", "style", "img", "input"}

\* Tag.string: the only child if it is a string, the .string of an only child
\* element, and None for no child or several.
RECURSIVE TagString(_)
TagString(kids) ==
    IF Len(kids) # 1 THEN [none |-> TRUE, s |-> ""]
    ELSE IF kids[1].tag = "#text" THEN [none |-> FALSE, s |-> kids[1].text]
    ELSE TagString(kids[1].kids)

\* for irrelevant in body([...]): irrelevant.decompose() - every element of
\* those tags, at any depth, is destroyed with all it contains.
RECURSIVE Decompose(_)
Decompose(kids) ==
    IF kids = <<>> THEN <<>>
    ELSE LET n == Head(kids) IN
         IF n.tag \in Irrelevant THEN Decompose(Tail(kids))
         ELSE <<[n EXCEPT !.kids = Decompose(n.kids)]>> \o Decompose(Tail(kids))

\* The strings of a subtree in document order, each stripped, the empty ones
\* left out (Tag._all_strings(strip=True)).
RECURSIVE AllStrings(_)
AllStrings(kids) ==
    IF kids = <<>> THEN <<>>
    ELSE LET n == Head(kids) IN
         (IF n.tag = "#text"
              THEN (IF Strip(n.text) = "" THEN <<>> ELSE <<Strip(n.text)>>)
              ELSE AllStrings(n.kids))
         \o AllStrings(Tail(kids))

\* get_text(separator="\n", strip=True)
GetText(kids) == Join("\n", AllStrings(kids))

\* find_all("a"): the anchor elements of a subtree, in document order.
RECURSIVE FindAllA(_)
FindAllA(kids) ==
    IF kids = <<>> THEN <<>>
    ELSE LET n == Head(kids) IN
         (IF n.tag = "a" THEN <<n>> ELSE <<>>) \o FindAllA(n.kids) \o FindAllA(Tail(kids))

\* ------------------------------------------- str(tag) and parsing it again

\* Elements html.parser closes as soon as they open, and elements whose content
\* it reads as raw text up to their end tag.
VoidTags == {"img", "input"}
RawTextTags == {"script", "style"}

Tok(k, tag, href, text) == [k |-> k, tag |-> tag, href |-> href, text |-> text]

\* str(tag): the markup of a subtree as a sequence of tokens - a start tag, a
\* run of text, an end tag, or the single <tag/> of a void element.
RECURSIVE Markup(_)
Markup(kids) ==
    IF kids = <<>> THEN <<>>
    ELSE LET n == Head(kids) IN
         (IF n.tag = "#text" THEN <<Tok("text", "", <<>>, n.text)>>
          ELSE IF n.tag \in VoidTags /\ n.kids = <<>>
                   THEN <<Tok("void", n.tag, n.href, "")>>
          ELSE <<Tok("open", n.tag, n.href, "")>> \o Markup(n.kids)
               \o <<Tok("close", n.tag, <<>>, "")>>)
         \o Markup(Tail(kids))

\* The raw text between <script> (or <style>) and its end tag, and the index
\* of the token after that end tag.
RECURSIVE RawText(_, _, _)
RawText(toks, i, tag) ==
    IF i > Len(toks) THEN [text |-> "", next |-> i]
    ELSE IF toks[i].k = "close" /\ toks[i].tag = tag THEN [text |-> "", next |-> i + 1]
    ELSE LET r == RawText(toks, i + 1, tag)
         IN  [text |-> toks[i].text \o r.text, next |-> r.next]

\* BeautifulSoup(markup, "html.parser"): the nodes read from token i up to the
\* end tag that closes the enclosing element, and the index after it.
RECURSIVE ParseNodes(_, _)
ParseNodes(toks, i) ==
    IF i > Len(toks) THEN [nodes |-> <<>>, next |-> i]
    ELSE LET t == toks[i] IN
         IF t.k = "close" THEN [nodes |-> <<>>, next |-> i + 1]
         ELSE IF t.k = "text" THEN
             LET r == ParseNodes(toks, i + 1)
             IN  [nodes |-> <<Text(t.text)>> \o r.nodes, next |-> r.next]
         ELSE IF t.k = "void" \/ t.tag \in VoidTags THEN
             LET r == ParseNodes(toks, i + 1)
             IN  [nodes |-> <<Elem(t.tag, t.href, <<>>)>> \o r.nodes, next |-> r.next]
         ELSE IF t.tag \in RawTextTags THEN
             LET raw == RawText(toks, i + 1, t.tag)
                 r   == ParseNodes(toks, raw.next)
             IN  [nodes |-> <<Elem(t.tag, t.href,
                                   IF raw.text = "" THEN <<>> ELSE <<Text(raw.text)>>)>>
                            \o r.nodes,
                  next |-> r.next]
         ELSE
             LET inner == ParseNodes(toks, i + 1)
                 r     == ParseNodes(toks, inner.next)
             IN  [nodes |-> <<Elem(t.tag, t.href, inner.nodes)>> \o r.nodes,
                  next |-> r.next]

\* body_copy = BeautifulSoup(str(self.soup.body), "html.parser"): the children
\* of the body of the copy.
CopyBody(kids) == ParseNodes(Markup(kids), 1).nodes

\* ---------------------------------------------------------------- urljoin

SchemeChars == {"a", "b", "c", "d", "e", "f", "g", "h", "i", "j", "k", "l", "m", "n",
                "o", "p", "q", "r", "s", "t", "u", "v", "w", "x", "y", "z",
                "0", "1", "2", "3", "4", "5", "6", "7", "8", "9", "+", "-", "."}
UsesRelative == {"", "http", "https", "ftp", "file"}
UsesNetloc == {"", "http", "https", "ftp", "file"}

\* The parts urlsplit returns (the model's references carry no query and no
\* fragment), error standing for the ValueError it raises for a netloc with an
\* unmatched square bracket.
UrlParts(scheme, netloc, path) ==
    [error |-> (Find(netloc, "[", 1) > 0) # (Find(netloc, "]", 1) > 0),
     scheme |-> scheme, netloc |-> netloc, path |-> path]

\* urlsplit once the scheme is cut off: a netloc follows "//" and ends at
\* index slash - 1, or with the rest when slash is 0.
CutNetloc(scheme, rest, slash) ==
    IF slash = 0 THEN UrlParts(scheme, SubSeq(rest, 3, Len(rest)), "")
    ELSE UrlParts(scheme, SubSeq(rest, 3, slash - 1), SubSeq(rest, slash, Len(rest)))

SplitNetloc(scheme, rest) ==
    IF SubSeq(rest, 1, Min(2, Len(rest))) = "//"
        THEN CutNetloc(scheme, rest, Find(rest, "/", 3))
        ELSE UrlParts(scheme, "", rest)

\* urlsplit once the first ":" is found, at index colon (0: none): what is
\* before it is the scheme if it is not empty and made of scheme characters.
CutScheme(url, default, colon) ==
    IF colon > 1 /\ \A j \in 1..(colon - 1) : CharAt(url, j) \in SchemeChars
        THEN SplitNetloc(SubSeq(url, 1, colon - 1), SubSeq(url, colon + 1, Len(url)))
        ELSE SplitNetloc(default, url)

\* urlsplit(url, scheme)
UrlSplit(url, default) == CutScheme(url, default, Find(url, ":", 1))

\* str.rfind("/"): the last index of "/" at or before i, 0 when none.
RECURSIVE LastSlash(_, _)
LastSlash(s, i) ==
    IF i < 1 THEN 0 ELSE IF CharAt(s, i) = "/" THEN i ELSE LastSlash(s, i - 1)

\* urlunsplit
UrlUnsplit(scheme, netloc, path) ==
    (IF scheme # "" THEN scheme \o ":" ELSE "")
    \o (IF netloc # "" \/ (scheme \in UsesNetloc /\ SubSeq(path, 1, Min(2, Len(path))) # "//")
            THEN "//" \o netloc \o (IF path # "" /\ CharAt(path, 1) # "/" THEN "/" ELSE "")
            ELSE "")
    \o path

Joined(url) == [error |-> FALSE, url |-> url]

\* urljoin once both are split: b the base, u the reference.
Resolve(b, u, url) ==
    IF b.error \/ u.error THEN [error |-> TRUE, url |-> ""]
    ELSE IF u.scheme # b.scheme \/ u.scheme \notin UsesRelative THEN Joined(url)
    ELSE IF u.scheme \in UsesNetloc /\ u.netloc # ""
        THEN Joined(UrlUnsplit(u.scheme, u.netloc, u.path))
    ELSE IF u.path = "" THEN Joined(UrlUnsplit(u.scheme, b.netloc, b.path))
    ELSE IF CharAt(u.path, 1) = "/" THEN Joined(UrlUnsplit(u.scheme, b.netloc, u.path))
    ELSE Joined(UrlUnsplit(u.scheme, b.netloc,
                           SubSeq(b.path, 1, LastSlash(b.path, Len(b.path))) \o u.path))

ResolveAgainst(b, url) == Resolve(b, UrlSplit(url, b.scheme), url)

\* urljoin(base, url), for references without dot segments, query or
\* fragment: [error, url], error when urlsplit raises ValueError.
UrlJoin(base, url) ==
    IF url = "" THEN Joined(base)
    ELSE IF base = "" THEN Joined(url)
    ELSE ResolveAgainst(UrlSplit(base, ""), url)

\* ------------------------------------------------------ the network

\* What the network answers to requests.get(url, headers=headers, timeout=10):
\* an exception raised by the call (exc), or a response with a status code
\* whose body BeautifulSoup either rejects (parse) or parses to a tree (soup).
Answer(exc, status, parse, tree) ==
    [exc |-> exc, status |-> status, parse |-> parse, soup |-> tree]

\* requests.get: the exception it raises or "none", and the one request made.
RequestsGet(w) == [exc |-> w.exc, gets |-> 1]

\* A status check that lets the 5xx statuses through.
RaiseForStatusMutClientOnly(status) == status >= 400 /\ status < 500

\* response.raise_for_status() raises HTTPError for a 4xx or 5xx status.
RaiseForStatus(status) == status >= 400 /\ status < 600

\* The first lines of each try body: the GET, raise_for_status and the parse.
\* The soup parsed, or the exception raised on the way.
GetAndParse(w) ==
    LET got == RequestsGet(w) IN
    IF got.exc # "none"
        THEN [raised |-> TRUE, exc |-> got.exc, status |-> 0, soup |-> NoSoup, gets |-> got.gets]
    ELSE IF RaiseForStatus(w.status)
        THEN [raised |-> TRUE, exc |-> "HTTPError", status |-> w.status, soup |-> NoSoup,
              gets |-> got.gets]
    ELSE IF w.parse # "none"
        THEN [raised |-> TRUE, exc |-> w.parse, status |-> 0, soup |-> NoSoup, gets |-> got.gets]
    ELSE [raised |-> FALSE, exc |-> "none", status |-> 0, soup |-> w.soup, gets |-> got.gets]

\* ------------------------------------------------ fetch_website_contents

DefaultMaxLength == 2000

\* title = soup.title.string if soup.title else "No title found"
TitleOf(doc) ==
    IF doc.title.present THEN TagString(doc.title.kids)
    ELSE [none |-> FALSE, s |-> "No title found"]

\* (title + "\n\n" + text)[:limit]; str + None raises TypeError.
Concat(title, text, limit) ==
    IF title.none THEN Raised("TypeError", 0)
    ELSE Returned(RetStr(Slice(title.s \o "\n\n" \o text, limit)))

\* The try body after the parse: the irrelevant nodes are removed from the
\* body of the function's own soup, in place.
ContentsBody(doc) ==
    Concat(TitleOf(doc),
           IF doc.body.present THEN GetText(Decompose(doc.body.kids)) ELSE "",
           DefaultMaxLength)

\* The except clauses with the RequestException clause written first.
ContentsHandlersMutGenericFirst(u, exc, status) ==
    IF IsInstance(exc, "RequestException")
        THEN RetStr("[Error: Could not fetch " \o u \o "]")
    ELSE IF IsInstance(exc, "Exception")
        THEN RetStr("[Error: Unexpected error for " \o u \o "]")
    ELSE RetRaise(exc)

\* The except clauses, in the order written; the first that matches handles.
ContentsHandlers(u, exc, status) ==
    IF IsInstance(exc, "ConnectionError")
        THEN RetStr("[Error: Could not connect to " \o u \o "]")
    ELSE IF IsInstance(exc, "Timeout") THEN RetStr("[Error: Timeout for " \o u \o "]")
    ELSE IF IsInstance(exc, "HTTPError")
        THEN RetStr("[Error: HTTP " \o IntToStr(status) \o " for " \o u \o "]")
    ELSE IF IsInstance(exc, "RequestException")
        THEN RetStr("[Error: Could not fetch " \o u \o "]")
    ELSE IF IsInstance(exc, "Exception")
        THEN RetStr("[Error: Unexpected error for " \o u \o "]")
    ELSE RetRaise(exc)

\* fetch_website_contents(url): what it returns and the requests it made.
FetchWebsiteContents(u, w) ==
    LET p == GetAndParse(w)
        r == IF p.raised THEN Raised(p.exc, p.status) ELSE ContentsBody(p.soup)
    IN  [ret |-> IF r.raised THEN ContentsHandlers(u, r.exc, r.status) ELSE r.val,
         gets |-> p.gets]

\* --------------------------------------------------- fetch_website_links

\* The loop over the anchors: href = link.get("href"); if href: append
\* urljoin(base, href).  [error, links]: error when urljoin raised ValueError.
RECURSIVE JoinLinks(_, _)
JoinLinks(anchors, base) ==
    IF anchors = <<>> THEN [error |-> FALSE, links |-> <<>>]
    ELSE LET href == Head(anchors).href IN
         IF href = <<>> \/ href = <<"">> THEN JoinLinks(Tail(anchors), base)
         ELSE LET j == UrlJoin(base, href[1]) IN
              IF j.error THEN [error |-> TRUE, links |-> <<>>]
              ELSE LET r == JoinLinks(Tail(anchors), base)
                   IN  [error |-> r.error,
                        links |-> IF r.error THEN <<>> ELSE <<j.url>> \o r.links]

\* links = [...] over soup.find_all("a"), then return links.
LinksBody(doc, base) ==
    LET r == JoinLinks(FindAllA(doc.title.kids \o doc.body.kids), base)
    IN  IF r.error THEN Raised("ValueError", 0) ELSE Returned(RetList(r.links))

\* except RequestException: return []; except Exception: return [].
LinksHandlers(exc) ==
    IF IsInstance(exc, "RequestException") THEN RetList(<<>>)
    ELSE IF IsInstance(exc, "Exception") THEN RetList(<<>>)
    ELSE RetRaise(exc)

\* fetch_website_links(url)
FetchWebsiteLinks(u, w) ==
    LET p == GetAndParse(w)
        r == IF p.raised THEN Raised(p.exc, p.status) ELSE LinksBody(p.soup, u)
    IN  [ret |-> IF r.raised THEN LinksHandlers(r.exc) ELSE r.val, gets |-> p.gets]

\* -------------------------------------------------------- WebsiteFetcher

\* _fetch: self.soup is the parsed document, None after a RequestException;
\* any other exception leaves _fetch, and the constructor with it.
FetchMethod(w) ==
    LET p == GetAndParse(w) IN
    IF ~p.raised THEN [ret |-> RetHandle, soup |-> p.soup, gets |-> p.gets]
    ELSE IF IsInstance(p.exc, "RequestException")
        THEN [ret |-> RetHandle, soup |-> NoSoup, gets |-> p.gets]
    ELSE [ret |-> RetRaise(p.exc), soup |-> NoSoup, gets |-> p.gets]

\* get_contents removing the irrelevant nodes from self.soup.body itself, as
\* fetch_website_contents does with its own soup.
GetContentsMutInPlace(doc, u, maxLength) ==
    IF ~doc.present
        THEN [ret |-> RetStr("[Error: Could not fetch " \o u \o "]"), soup |-> doc, gets |-> 0]
    ELSE LET after == IF doc.body.present
                          THEN [doc EXCEPT !.body.kids = Decompose(doc.body.kids)]
                          ELSE doc
             r == Concat(TitleOf(doc),
                         IF doc.body.present THEN GetText(after.body.kids) ELSE "",
                         maxLength)
         IN  [ret |-> r.val, soup |-> after, gets |-> 0]

\* get_contents trying the request again when self.soup is None.
GetContentsMutRefetch(doc, u, maxLength) ==
    IF ~doc.present
        THEN [ret |-> RetStr("[Error: Could not fetch " \o u \o "]"), soup |-> doc, gets |-> 1]
    ELSE LET r == Concat(TitleOf(doc),
                         IF doc.body.present
                             THEN GetText(Decompose(CopyBody(doc.body.kids)))
                             ELSE "",
                         maxLength)
         IN  [ret |-> r.val, soup |-> doc, gets |-> 0]

\* get_contents(max_length): the value returned or the exception raised, the
\* value of self.soup afterwards, and the requests made.  The irrelevant nodes
\* are removed from a copy of the body parsed from its markup.
GetContents(doc, u, maxLength) ==
    IF ~doc.present
        THEN [ret |-> RetStr("[Error: Could not fetch " \o u \o "]"), soup |-> doc, gets |-> 0]
    ELSE LET r == Concat(TitleOf(doc),
                         IF doc.body.present
                             THEN GetText(Decompose(CopyBody(doc.body.kids)))
                             ELSE "",
                         maxLength)
         IN  [ret |-> r.val, soup |-> doc, gets |-> 0]

\* get_links(): no except clause, so a ValueError of urljoin leaves the method.
GetLinks(doc, u) ==
    IF ~doc.present THEN [ret |-> RetList(<<>>), soup |-> doc, gets |-> 0]
    ELSE [ret |-> LinksBody(doc, u).val, soup |-> doc, gets |-> 0]

\* ------------------------------------------------------------ inputs

Urls == {"https://site.test/page", "http://h.test/d/"}

\* A text longer than the default limit.
LongText == Repeat("x", DefaultMaxLength + 1)

P(t) == Elem("p", <<>>, <<Text(t)>>)

\* The nodes a body is made of: a paragraph, a script, and anchors without
\* href, with an empty one, a root-relative one around an image, one of
\* another scheme around a long text, and one urljoin rejects.
NodeShapes ==
    { P(" hi "),
      Elem("script", <<>>, <<Text("evil()")>>),
      Elem("a", <<>>, <<Text("n")>>),
      Elem("a", <<"">>, <<>>),
      Elem("a", <<"/x">>, <<Elem("img", <<>>, <<>>)>>),
      Elem("a", <<"mailto:m@y.test">>, <<Text(LongText)>>),
      Elem("a", <<"//[y">>, <<>>) }

\* No title element, an empty one, one holding a string, one holding markup.
Titles ==
    { NoElem, Found(<<>>), Found(<<Text("T")>>),
      Found(<<Elem("b", <<>>, <<Text("T")>>)>>) }

Bodies ==
    {NoElem} \cup {Found(kids) : kids \in UNION {[1..n -> NodeShapes] : n \in 0..MaxNodes}}

Pages == {Soup(t, b) : t \in Titles, b \in Bodies}

\* Exceptions requests.get raises: a connection failure, a connect and a read
\* timeout, another requests error, and one that is no requests error.
GetRaises == {"ConnectionError", "ConnectTimeout", "ReadTimeout", "TooManyRedirects",
              "UnicodeError"}
ErrorStatuses == {404, 500}

Webs ==
    {Answer(e, 0, "none", NoSoup) : e \in GetRaises}
    \cup {Answer("none", st, "none", NoSoup) : st \in ErrorStatuses}
    \cup {Answer("none", 200, "ParserRejectedMarkup", NoSoup)}
    \cup {Answer("none", 200, "none", page) : page \in Pages}

MaxLengths == {0 - MaxCut, 0, MaxCut, DefaultMaxLength}

\* ------------------------------------------------------------- state

\* The page and the state of the network stay what they are during a
\* behaviour: every GET of it gets the same answer.
VARIABLES
    web,      \* what the network answers to a GET
    alive,    \* a WebsiteFetcher has been constructed
    url,      \* its self.url
    soup,     \* its self.soup
    fetched,  \* the document its constructor parsed (history)
    gets,     \* requests made by it since it was constructed (history)
    used,     \* its methods called so far (history)
    call      \* the last call: function, arguments, result, requests made

vars == <<web, alive, url, soup, fetched, gets, used, call>>

Call(fn, u, maxLength, ret, n) ==
    [fn |-> fn, url |-> u, max_length |-> maxLength, ret |-> ret, gets |-> n]

Init ==
    /\ web \in Webs
    /\ alive = FALSE
    /\ url = ""
    /\ soup = NoSoup
    /\ fetched = NoSoup
    /\ gets = 0
    /\ used = {}
    /\ call = Call("none", "", 0, RetHandle, 0)

\* contents = fetch_website_contents(u)
CallFetchWebsiteContents(u) ==
    /\ LET r == FetchWebsiteContents(u, web)
       IN  call' = Call("fetch_website_contents", u, DefaultMaxLength, r.ret, r.gets)
    /\ UNCHANGED <<web, alive, url, soup, fetched, gets, used>>

\* links = fetch_website_links(u)
CallFetchWebsiteLinks(u) ==
    /\ LET r == FetchWebsiteLinks(u, web)
       IN  call' = Call("fetch_website_links", u, 0, r.ret, r.gets)
    /\ UNCHANGED <<web, alive, url, soup, fetched, gets, used>>

\* fetcher = WebsiteFetcher(u): __init__ sets url and soup and calls _fetch; an
\* exception leaving it leaves the name fetcher bound as it was.
Construct(u) ==
    /\ LET f == FetchMethod(web) IN
       /\ call' = Call("WebsiteFetcher", u, 0, f.ret, f.gets)
       /\ IF f.ret.type = "raise"
              THEN UNCHANGED <<alive, url, soup, fetched, gets, used>>
              ELSE /\ alive' = TRUE
                   /\ url' = u
                   /\ soup' = f.soup
                   /\ fetched' = f.soup
                   /\ gets' = f.gets
                   /\ used' = {}
    /\ UNCHANGED web

\* fetcher.get_contents(maxLength)
CallGetContents(maxLength) ==
    /\ alive
    /\ LET r == GetContents(soup, url, maxLength) IN
       /\ call' = Call("get_contents", url, maxLength, r.ret, r.gets)
       /\ soup' = r.soup
       /\ gets' = gets + r.gets
    /\ used' = used \cup {"get_contents"}
    /\ UNCHANGED <<web, alive, url, fetched>>

\* fetcher.get_links()
CallGetLinks ==
    /\ alive
    /\ LET r == GetLinks(soup, url) IN
       /\ call' = Call("get_links", url, 0, r.ret, r.gets)
       /\ soup' = r.soup
       /\ gets' = gets + r.gets
    /\ used' = used \cup {"get_links"}
    /\ UNCHANGED <<web, alive, url, fetched>>

Next ==
    \/ \E u \in Urls : CallFetchWebsiteContents(u)
    \/ \E u \in Urls : CallFetchWebsiteLinks(u)
    \/ \E u \in Urls : Construct(u)
    \/ \E m \in MaxLengths : CallGetContents(m)
    \/ CallGetLinks

Spec == Init /\ [][Next]_vars

\* ------------------------------------------------------------- claims

\* The text a page stands for: its title string, two newlines, and the text
\* of its body without the irrelevant nodes.
FullText(doc) ==
    TitleOf(doc).s \o "\n\n"
    \o (IF doc.body.present THEN GetText(Decompose(doc.body.kids)) ELSE "")

\* The anchors of a page that carry a nonempty href.
WithHref(doc) ==
    LET anchors == FindAllA(doc.title.kids \o doc.body.kids)
    IN  Cardinality({i \in DOMAIN anchors : anchors[i].href \notin {<<>>, <<"">>}})

\* The failure kind of an answer of the network, "none" for a parsed page.
Kind(w) ==
    IF w.exc # "none" THEN
        IF IsInstance(w.exc, "Timeout") THEN "Timeout"
        ELSE IF IsInstance(w.exc, "ConnectionError") THEN "ConnectionFailed"
        ELSE IF IsInstance(w.exc, "RequestException") THEN "OtherTransportError"
        ELSE "UnexpectedError"
    ELSE IF w.status \in ErrorStatuses THEN "HTTPStatusError"
    ELSE IF w.parse # "none" THEN "UnexpectedError"
    ELSE "none"

StatusText(st) == CASE st = 404 -> "404" [] st = 500 -> "500"

\* p is a prefix of s.
IsPrefix(p, s) == Len(p) <= Len(s) /\ SubSeq(s, 1, Len(p)) = p

\* C1: get_contents never changes self.soup, so on one instance every
\* get_links call returns the links of the document the constructor parsed and
\* every get_contents call returns the contents of that document for its
\* max_length, whatever was called before.
C1_ExtractionOrderIndependent ==
    alive =>
        /\ soup = fetched
        /\ call.fn = "get_links" => call.ret = GetLinks(fetched, url).ret
        /\ call.fn = "get_contents"
               => call.ret = GetContents(fetched, url, call.max_length).ret

\* A get_links call that follows a get_contents call, on a page with a script
\* node and at least one link.
C1_Witness ==
    /\ alive /\ call.fn = "get_links" /\ "get_contents" \in used
    /\ call.ret.list # <<>>
    /\ \E i \in DOMAIN fetched.body.kids : fetched.body.kids[i].tag = "script"

\* C2 as stated: for every fetched document and every integer max_length, also
\* negative, the string returned is no longer than max_length, and is the full
\* text when that is shorter than max_length.
C2_LengthAtMostMaxLength ==
    /\ (call.fn = "get_contents" /\ fetched.present /\ call.ret.type = "str")
           => /\ Len(call.ret.str) <= call.max_length
              /\ Len(FullText(fetched)) < call.max_length
                     => call.ret.str = FullText(fetched)
    /\ (call.fn = "fetch_website_contents" /\ web.soup.present
        /\ ~TitleOf(web.soup).none)
           => /\ Len(call.ret.str) <= DefaultMaxLength
              /\ Len(FullText(web.soup)) < DefaultMaxLength
                     => call.ret.str = FullText(web.soup)

\* C2 amended: for max_length >= 0 (and the fixed 2000) the text returned is
\* no longer than max_length and is the full text when that fits; a title
\* whose .string is None gives no text (TypeError, or its sentinel).
C2_LengthAtMostNonNegativeMaxLength ==
    /\ (call.fn = "get_contents" /\ fetched.present /\ call.max_length >= 0)
           => IF TitleOf(fetched).none THEN call.ret = RetRaise("TypeError")
              ELSE /\ call.ret.type = "str"
                   /\ Len(call.ret.str) <= call.max_length
                   /\ Len(FullText(fetched)) <= call.max_length
                          => call.ret.str = FullText(fetched)
    /\ (call.fn = "fetch_website_contents" /\ web.soup.present)
           => IF TitleOf(web.soup).none
                  THEN call.ret = RetStr("[Error: Unexpected error for " \o call.url \o "]")
              ELSE /\ call.ret.type = "str"
                   /\ Len(call.ret.str) <= DefaultMaxLength
                   /\ Len(FullText(web.soup)) <= DefaultMaxLength
                          => call.ret.str = FullText(web.soup)

\* get_contents cut a longer text to exactly max_length > 0 characters.
C2_Witness ==
    /\ call.fn = "get_contents" /\ fetched.present /\ call.max_length = MaxCut
    /\ call.ret.type = "str" /\ Len(call.ret.str) = MaxCut
    /\ Len(FullText(fetched)) > MaxCut

\* C3: a request that times out (any instance of requests' Timeout) makes
\* fetch_website_contents return the Timeout sentinel.
C3_TimeoutReportedAsTimeout ==
    (call.fn = "fetch_website_contents" /\ IsInstance(web.exc, "Timeout"))
        => call.ret = RetStr("[Error: Timeout for " \o call.url \o "]")

\* C4: no call of the module lets an exception reach its caller.
C4_NoExceptionCrosses == call.ret.type # "raise"

\* C5: a WebsiteFetcher makes one GET, in its constructor, and none later;
\* after a failed fetch self.soup stays None, every get_contents returns the
\* "Could not fetch" sentinel and every get_links the empty list.
C5_FetchedOnce ==
    /\ call.fn = "WebsiteFetcher" => call.gets = 1
    /\ call.fn \in {"get_contents", "get_links"} => call.gets = 0
    /\ alive => gets = 1
    /\ alive => (soup.present <=> (web.soup.present /\ web.exc = "none"))
    /\ (alive /\ ~fetched.present) =>
           /\ ~soup.present
           /\ call.fn = "get_contents"
                  => call.ret = RetStr("[Error: Could not fetch " \o url \o "]")
           /\ call.fn = "get_links" => call.ret = RetList(<<>>)

\* A get_contents call on a handle whose fetch failed, after a get_links call.
C5_Witness ==
    /\ alive /\ ~soup.present /\ call.fn = "get_contents" /\ "get_links" \in used
    /\ Kind(web) \in {"ConnectionFailed", "Timeout", "HTTPStatusError", "OtherTransportError"}

\* C6: a response with an error status s makes fetch_website_contents return
\* the HTTP sentinel carrying s.
C6_HttpStatusCarried ==
    (call.fn = "fetch_website_contents" /\ web.exc = "none" /\ web.status \in ErrorStatuses)
        => call.ret = RetStr("[Error: HTTP " \o StatusText(web.status) \o " for "
                             \o call.url \o "]")

\* fetch_website_contents has answered a 500 response.
C6_Witness ==
    /\ call.fn = "fetch_website_contents" /\ web.exc = "none" /\ web.status = 500
    /\ call.ret.type = "str"

\* C7: for a fixed url, a failure of another kind never gives the caller the
\* value this failure gave: through fetch_website_contents, through
\* fetch_website_links, and through a WebsiteFetcher and its get_contents and
\* get_links.
C7_KindsDistinguishable ==
    \A w \in Webs :
        (Kind(web) # "none" /\ Kind(w) # "none" /\ Kind(w) # Kind(web)) =>
            /\ call.fn = "fetch_website_contents"
                   => FetchWebsiteContents(call.url, w).ret # call.ret
            /\ call.fn = "fetch_website_links"
                   => FetchWebsiteLinks(call.url, w).ret # call.ret
            /\ call.fn = "WebsiteFetcher" => FetchMethod(w).ret # call.ret
            /\ (call.fn = "get_contents" /\ alive /\ FetchMethod(w).ret.type # "raise")
                   => GetContents(FetchMethod(w).soup, url, call.max_length).ret # call.ret
            /\ (call.fn = "get_links" /\ alive /\ FetchMethod(w).ret.type # "raise")
                   => GetLinks(FetchMethod(w).soup, url).ret # call.ret

\* C8: the links returned for a fetched page are one per anchor with a
\* nonempty href.
C8_OneEntryPerHref ==
    /\ (call.fn = "fetch_website_links" /\ web.soup.present)
           => call.ret.type = "list" /\ Len(call.ret.list) = WithHref(web.soup)
    /\ (call.fn = "get_links" /\ fetched.present)
           => call.ret.type = "list" /\ Len(call.ret.list) = WithHref(fetched)

\* C9: the contents of a fetched page are a prefix of title, two newlines and
\* body text, so a page with a title element never yields an error sentinel.
C9_ContentsArePrefixOfText ==
    /\ (call.fn = "fetch_website_contents" /\ web.soup.present)
           => /\ call.ret.type = "str"
              /\ IsPrefix(call.ret.str, FullText(web.soup))
    /\ (call.fn = "get_contents" /\ fetched.present)
           => /\ call.ret.type = "str"
              /\ IsPrefix(call.ret.str, FullText(fetched))

\* C10: when the GET raises a connection failure, fetch_website_contents
\* returns the "Could not connect" sentinel and fetch_website_links the empty
\* list, each after one request.
C10_UnreachableHost ==
    web.exc = "ConnectionError" =>
        /\ call.fn = "fetch_website_contents"
               => /\ call.ret = RetStr("[Error: Could not connect to " \o call.url \o "]")
                  /\ call.gets = 1
        /\ call.fn = "fetch_website_links"
               => call.ret = RetList(<<>>) /\ call.gets = 1

\* fetch_website_contents has met a connection failure.
C10_Witness ==
    /\ web.exc = "ConnectionError" /\ call.fn = "fetch_website_contents"
    /\ call.ret.type = "str"

====
